---- MODULE Spec2Model ----
(***************************************************************************)
(* Model of fetch_prs_data (src/pr_overview.py), the incremental pull      *)
(* request synchronisation routine: it loads a pickled snapshot, pages     *)
(* through the issue listing of a repository starting at a watermark       *)
(* (`since`), upserts every pull request it meets into the snapshot and    *)
(* pickles the result.  A run that was called without a snapshot file and  *)
(* without update can be followed by a second run on the file it pickled.  *)
(*                                                                         *)
(* Timestamps are seconds since 1970-01-01T00:00:00.  The remote dataset   *)
(* is a sequence of issues in ascending order of their last update; the    *)
(* issue at position p was last updated at Stamp(p).                       *)
(***************************************************************************)
EXTENDS Integers, Sequences, FiniteSets, TLC

\* ------------------------------------------------------------------ bounds
\* issue and pull request numbers are 1..MaxNr; the remote dataset holds the issues
\* 1..k for some k <= MaxNr (issues and pull requests share one consecutive numbering)
MaxNr == 3
\* the prior snapshot file holds at most MaxLoaded records
MaxLoaded == 2
\* the listing call fails at most MaxSleep times in a row in the model
MaxSleep == 2
\* page size of the listing call (GITHUB_MAX_PER_PAGE, imported by the script)
GITHUB_MAX_PER_PAGE == 2

\* ------------------------------------------------------- program constants
\* '%sT23:59:59': the last second of the day, in seconds since midnight
END_OF_DAY == 86399
\* datetime.timedelta(hours=1), in seconds
ONE_HOUR == 3600
\* '1970-01-01T00:00:01Z'
EPOCH_START == 1

SecondsPerDay == END_OF_DAY + 1
\* update time of the issue at position p of the remote dataset: two updates a day
Stamp(p) == p * (SecondsPerDay \div 2)
\* a --since date is one of the days the updates of the dataset can fall on
MaxDay == Stamp(MaxNr) \div SecondsPerDay

\* an argument that is not given, a file that does not exist
None == <<>>
Some(x) == <<x>>
\* the watermark before it is set
NoSince == -1
\* a --since text that is no YYYY-MM-DD date; the date of day d is the number d >= 0
NotADate == -1

Numbers == 1..MaxNr
Kinds == {"issue", "open", "closed"}

SetMax(S) == CHOOSE m \in S : \A x \in S : x <= m

Range(s) == {s[i] : i \in 1..Len(s)}

Prefix(s, n) == IF Len(s) <= n THEN s ELSE SubSeq(s, 1, n)

\* sequences over S without repetition, of length at most n
InjSeqs(S, n) ==
    UNION {{s \in [1..k -> S] : \A i, j \in 1..k : i # j => s[i] # s[j]} : k \in 0..n}

VARIABLES
    remote,         \* the repository's issues, in ascending order of update time
    pickle_file,    \* argument: None, or Some(the records of the prior snapshot file)
    pr_range,       \* argument: None, or <<low, high>>
    update,         \* argument
    since_arg,      \* argument: None, Some(NotADate), or Some(d) for the date of day d
    pc,             \* position in fetch_prs_data
    since,          \* the watermark
    prs_data,       \* the snapshot list
    pr_nrs,         \* index of known PR numbers
    last_issue_nr,
    max_pr,
    issues_data,    \* the page being processed
    idx,            \* position of the per-issue loop in issues_data
    sleep_secs,
    disk,           \* None, or Some(what this run pickled to PICKLE_FILE % repository)
    calls,          \* remote requests made so far, by kind (a page request that is
                    \* tried again after a failure counts once)
    requests,       \* history: the watermark of every page request answered
    visited,        \* history: numbers of the issues the per-issue loop has seen
    no_progress,    \* history: times the no-progress branch (line 309) was entered
    fail_reason,    \* why the run aborted, "" while it has not
    created_at,     \* the remote: creation time of the pull request numbered range_low,
                    \* NoSince until a point lookup has answered it
    run,            \* 1, or 2 in the run started on the file the first run pickled
    first_returned, \* None, or Some(the list the first run returned)
    pr_check        \* None, or the state of a run of pr_check.py: a record of the
                    \* fields defined below

vars == <<remote, pickle_file, pr_range, update, since_arg, pc, since, prs_data, pr_nrs,
          last_issue_nr, max_pr, issues_data, idx, sleep_secs, disk, calls, requests,
          visited, no_progress, fail_reason, created_at, run, first_returned,
          pr_check>>

check_vars == <<pr_check>>

\* position in main of pr_check.py
cpc == pr_check.cpc
\* the module global of pr_check.py
DRY_RUN == pr_check.DRY_RUN
\* go.options: dry_run, force, github_user and the selected action
options == pr_check.options
\* the pull request: who opened it, whose repository its branch is in
pr_info == pr_check.pr_info
\* "none", or what review(pr_data) returned: "passed" or "failed"
review_res == pr_check.review_res
\* 0, or the status the merge PUT has answered
put_status == pr_check.put_status
\* travis notifications still to be handled
pending == pr_check.pending
\* history: the requests sent that change something, in order
mutations == pr_check.mutations

\* line 45 of pr_check.py
MERGE_USER == "boegel"

Users == {MERGE_USER, "contributor"}

Actions == {"comment", "merge", "review", "test", "travis"}

\* pr_check.py is not run
CheckIdle == pr_check = None

\* what only the start of a second run changes
earlier == <<run, first_returned>>

inputs == <<remote, pickle_file, pr_range, update, since_arg>>

\* ------------------------------------------------------------ the remote
\* the record the issue listing returns for the issue at position p
IssueAt(p) ==
    [number       |-> remote[p].number,
     pull_request |-> remote[p].kind # "issue",
     state        |-> IF remote[p].kind = "closed" THEN "closed" ELSE "open",
     updated_at   |-> Stamp(p)]

AllIssues == [p \in 1..Len(remote) |-> IssueAt(p)]

UpdatedSince(issue, s) == issue.updated_at >= s

\* gh_repo.issues.get(since=since, per_page=GITHUB_MAX_PER_PAGE, state='all',
\* sort='updated', direction='asc'): the first page of the issues updated at or
\* after `s`, least recently updated first
ListIssues(s) ==
    LET Fresh(issue) == UpdatedSince(issue, s)
    IN  Prefix(SelectSeq(AllIssues, Fresh), GITHUB_MAX_PER_PAGE)

\* positions of the remote dataset that hold pull request number n
PullPos(n) == {p \in 1..Len(remote) : remote[p].number = n /\ remote[p].kind # "issue"}

\* gh_repo.pulls.get(per_page=GITHUB_MAX_PER_PAGE): numbers of the open pull requests
ListPulls == {remote[p].number : p \in {q \in 1..Len(remote) : remote[q].kind = "open"}}

\* ------------------------------------------------------------ pure helpers
\* mutant: the upper bound of the range is not compared
in_range_low_only(pr_nr, range) ==
    IF range # None THEN range[1] <= pr_nr ELSE TRUE

in_range(pr_nr, range) ==
    IF range # None THEN range[1] <= pr_nr /\ pr_nr <= range[2] ELSE TRUE

\* mutant: every text is taken for a date
SinceRegexMatches_any(arg) == TRUE

\* since_regex.match(since): the argument is a date
SinceRegexMatches(arg) == arg # NotADate

\* mutant: the watermark is the first second of the day
NormalizeSince_midnight(day) == day * SecondsPerDay

\* since = '%sT23:59:59' % since
NormalizeSince(day) == day * SecondsPerDay + END_OF_DAY

\* fetch_pr_data: the pull request record enriched with combined_status and
\* issue_comments; defined when PullPos(n) is not empty
fetch_pr_data(n) ==
    LET p == CHOOSE q \in PullPos(n) : TRUE
    IN  [number          |-> n,
         state           |-> IF remote[p].kind = "open" THEN "open" ELSE "closed",
         updated_at      |-> Stamp(p),
         origin          |-> "pull",
         is_merged       |-> "absent",
         merged_by       |-> FALSE,
         combined_status |-> TRUE,
         issue_comments  |-> TRUE]

\* mutant: a closed pull request is stored as the full point lookup record
ClosedRecord_full(issue, merged) == fetch_pr_data(issue.number)

\* lines 264-269: the listing record with is_merged (and merged_by) added
ClosedRecord(issue, merged) ==
    [number          |-> issue.number,
     state           |-> issue.state,
     updated_at      |-> issue.updated_at,
     origin          |-> "issue",
     is_merged       |-> IF merged THEN "yes" ELSE "no",
     merged_by       |-> merged,
     combined_status |-> FALSE,
     issue_comments  |-> FALSE]

\* a record of the prior snapshot file, fetched by an earlier run while PR n was open
FileRecord(n) ==
    [number          |-> n,
     state           |-> "open",
     updated_at      |-> 0,
     origin          |-> "file",
     is_merged       |-> "absent",
     merged_by       |-> FALSE,
     combined_status |-> TRUE,
     issue_comments  |-> TRUE]

NumbersOf(data) == [i \in 1..Len(data) |-> data[i].number]

\* mutant: the record that has the number of pr_data is taken out and pr_data put at
\* the end of the list
ReplaceFirst_moved(data, pr_data) ==
    Append(SelectSeq(data, LAMBDA r : r.number # pr_data.number), pr_data)

\* lines 278-281: replace the first record that has the number of pr_data
ReplaceFirst(data, pr_data) ==
    LET hits == {i \in 1..Len(data) : data[i].number = pr_data.number}
    IN  IF hits = {} THEN data
        ELSE LET first == CHOOSE i \in hits : \A j \in hits : i <= j
             IN  [data EXCEPT ![first] = pr_data]

\* lines 278-281: the value of the loop variable idx (counted from 0) after the loop,
\* for a list that is not empty: the index of the first record numbered n, or the
\* last index of the list when there is none
LastIndex(data, n) ==
    LET hits == {i \in 1..Len(data) : data[i].number = n}
    IN  IF hits = {} THEN Len(data) - 1
        ELSE (CHOOSE i \in hits : \A j \in hits : i <= j) - 1

\* line 282: if idx == len(prs_data)
ReplaceFailed(data, n) == LastIndex(data, n) = Len(data)

\* lines 277-284: the upsert ends the run: the replace path is taken and the check of
\* line 282 fires, or the list is empty, the loop binds no idx and line 282 raises
\* UnboundLocalError
UpsertAborts(data, nrs, pr_data) ==
    /\ pr_data.number \in Range(nrs)
    /\ (data = <<>> \/ ReplaceFailed(data, pr_data.number))

\* mutant: a new record is appended to the list and its number not to the index
Upsert_unindexed(data, nrs, pr_data) ==
    IF pr_data.number \in Range(nrs)
    THEN <<ReplaceFirst(data, pr_data), nrs>>
    ELSE <<Append(data, pr_data), nrs>>

\* mutant: the record is appended whether or not its number is known
Upsert_append(data, nrs, pr_data) ==
    <<Append(data, pr_data), Append(nrs, pr_data.number)>>

\* lines 276-287: <<prs_data, pr_nrs>> after the upsert of pr_data.  The check of
\* line 282 compares the last loop index with len(prs_data), which range() never
\* yields, so a replace that finds no record leaves the list as it is.
Upsert(data, nrs, pr_data) ==
    IF pr_data.number \in Range(nrs)
    THEN <<ReplaceFirst(data, pr_data), nrs>>
    ELSE <<Append(data, pr_data), Append(nrs, pr_data.number)>>

IssueNumbers(page) == {page[i].number : i \in 1..Len(page)}

\* the highest issue number of a page, 0 for an empty page
MaxNumber(page) == IF page = <<>> THEN 0 ELSE SetMax(IssueNumbers(page))

\* [issue for issue in issues_data if issue['number'] == nr]
WithNumber(page, nr) == SelectSeq(page, LAMBDA issue : issue.number = nr)

\* mutant: the watermark is read from a timestamp an hour before the last update
NewSince_earlier(page, nr) == WithNumber(page, nr)[1].updated_at - ONE_HOUR

\* lines 302, 305: the update time of the first issue of the page numbered nr
NewSince(page, nr) == WithNumber(page, nr)[1].updated_at

\* mutant: the issue number carried over from earlier pages is kept when it is higher
\* than every number of the page
Advance_carry(page, last_nr, s) ==
    IF Len(page) > 0
    THEN IF last_nr > MaxNumber(page)
         THEN <<last_nr, NewSince(page, MaxNumber(page))>>
         ELSE <<MaxNumber(page), NewSince(page, MaxNumber(page))>>
    ELSE <<last_nr, s>>

\* lines 296-307: <<last_issue_nr, since>> after a page
Advance(page, last_nr, s) ==
    IF Len(page) > 0
    THEN LET nr1 == IF last_nr >= MaxNumber(page) THEN last_nr ELSE MaxNumber(page)
         IN  IF Len(WithNumber(page, nr1)) > 0
             THEN <<nr1, NewSince(page, nr1)>>
             ELSE <<MaxNumber(page), NewSince(page, MaxNumber(page))>>
    ELSE <<last_nr, s>>

\* ------------------------------------------------------------ initial state
\* the issues 1..k in any order of update, each a plain issue or an open or closed
\* pull request
Remotes ==
    UNION {{[p \in 1..Len(ns) |-> [number |-> ns[p], kind |-> ks[p]]] :
               ks \in [1..Len(ns) -> Kinds]} :
           ns \in {s \in InjSeqs(Numbers, MaxNr) : Range(s) = 1..Len(s)}}

\* snapshot files an earlier run can have written: records of pull requests of the
\* repository, no number twice
Snapshots(rem) ==
    LET pulls == {rem[p].number : p \in {q \in 1..Len(rem) : rem[q].kind # "issue"}}
    IN  {[i \in 1..Len(ns) |-> FileRecord(ns[i])] : ns \in InjSeqs(pulls, MaxLoaded)}

Ranges == {r \in Numbers \X Numbers : r[1] <= r[2]}

NoCalls == [listing |-> 0, pulls |-> 0, pull |-> 0, status |-> 0, comments |-> 0]

\* the issues were last updated in the order of their numbers
UpdatedInOrder(rem) == \A p \in 1..Len(rem) : rem[p].number = p

\* Runs without a prior snapshot file are started against every dataset; runs with
\* one against the datasets whose issues were updated in the order of their numbers.
Init ==
    /\ remote \in Remotes
    /\ pickle_file \in {None} \cup
                       {Some(data) : data \in IF UpdatedInOrder(remote)
                                              THEN Snapshots(remote) ELSE {}}
    /\ pr_range \in {None} \cup Ranges
    /\ update \in BOOLEAN
    /\ since_arg \in {None, Some(NotADate)} \cup {Some(d) : d \in 0..MaxDay}
    /\ pc = "check_since"
    /\ since = NoSince
    /\ prs_data = <<>>
    /\ pr_nrs = <<>>
    /\ last_issue_nr = 0
    /\ max_pr = 0
    /\ issues_data = <<>>
    /\ idx = 0
    /\ sleep_secs = 0
    /\ disk = None
    /\ calls = NoCalls
    /\ requests = <<>>
    /\ visited = {}
    /\ no_progress = 0
    /\ fail_reason = ""
    /\ created_at = NoSince
    /\ run = 1
    /\ first_returned = None
    /\ CheckIdle

\* ------------------------------------------------------------ actions
\* mutant: a run that aborts goes on to the dump
Fail_dumping(reason) ==
    /\ pc' = "dump"
    /\ fail_reason' = reason

\* raise EasyBuildError(...), or an exception nothing catches: the run is over
Fail(reason) ==
    /\ pc' = "failed"
    /\ fail_reason' = reason

\* lines 181-188
CheckSince ==
    /\ pc = "check_since"
    /\ IF since_arg # None /\ ~SinceRegexMatches(since_arg[1])
       THEN /\ Fail("since_format")
            /\ UNCHANGED since
       ELSE /\ pc' = "load"
            /\ since' = IF since_arg = None THEN NoSince ELSE NormalizeSince(since_arg[1])
            /\ UNCHANGED fail_reason
    /\ UNCHANGED <<inputs, earlier, created_at, check_vars>>
    /\ UNCHANGED <<prs_data, pr_nrs, last_issue_nr, max_pr, issues_data, idx,
                   sleep_secs, disk, calls, requests, visited, no_progress>>

\* lines 190-195
LoadPickle ==
    /\ pc = "load"
    /\ prs_data' = IF pickle_file # None THEN pickle_file[1] ELSE <<>>
    /\ pr_nrs' = NumbersOf(prs_data')
    /\ pc' = "early_return"
    /\ UNCHANGED <<inputs, earlier, created_at, check_vars>>
    /\ UNCHANGED <<since, last_issue_nr, max_pr, issues_data, idx, sleep_secs,
                   disk, calls, requests, visited, no_progress, fail_reason>>

\* mutant: the early return is taken when update is set
ReturnsCached_on_update(data, upd, range) == data # <<>> /\ upd

\* line 197: the condition of the early return
ReturnsCached(data, upd, range) == data # <<>> /\ ~upd

\* lines 197-199
EarlyReturn ==
    /\ pc = "early_return"
    /\ pc' = IF ReturnsCached(prs_data, update, pr_range) THEN "returned" ELSE "bounds"
    /\ UNCHANGED <<inputs, earlier, created_at, check_vars>>
    /\ UNCHANGED <<since, prs_data, pr_nrs, last_issue_nr, max_pr, issues_data,
                   idx, sleep_secs, disk, calls, requests, visited, no_progress,
                   fail_reason>>

\* mutant: the error is swallowed and the run stays where it is
Gaierror_ignored == UNCHANGED <<pc, fail_reason>>

\* lines 155-156, 218-219, 241-242: except socket.gaierror: raise EasyBuildError
Gaierror == Fail("gaierror")

\* the three requests of fetch_pr_data (lines 132, 140, 148), one of which fails
LookupCalls == {"pull", "status", "comments"}

\* the requests counted when the request `failing` of a point lookup fails
FailedLookup(failing) ==
    [calls EXCEPT !.pull = @ + 1,
                  !.status = @ + (IF failing \in {"status", "comments"} THEN 1 ELSE 0),
                  !.comments = @ + (IF failing = "comments" THEN 1 ELSE 0)]

\* lines 227-228
LoopBounds(pr_cnt) ==
    /\ last_issue_nr' = IF pr_range # None /\ pr_range[1] # 0 THEN pr_range[1] ELSE 1
    /\ max_pr' = IF pr_range # None /\ pr_range[2] # 0 THEN pr_range[2] ELSE pr_cnt

\* lines 205-213: a range is given; point lookup of the PR numbered range_low
RangeBounds ==
    /\ pc = "bounds"
    /\ pr_range # None
    /\ calls' = [calls EXCEPT !.pull = @ + 1,
                              !.status = @ + (IF PullPos(pr_range[1]) # {} THEN 1 ELSE 0),
                              !.comments = @ + 1]
    /\ IF PullPos(pr_range[1]) = {}
       THEN \* the lookup answers 404: the comments loop of fetch_pr_data raises TypeError
            /\ Fail("not_found")
            /\ UNCHANGED <<since, last_issue_nr, max_pr, created_at>>
       ELSE /\ \E p \in 1..fetch_pr_data(pr_range[1]).updated_at \div Stamp(1) :
                  \* pr_data['created_at'], at or before the last update
                  /\ created_at \in {NoSince, Stamp(p)}
                  /\ created_at' = Stamp(p)
            /\ IF since # NoSince
               THEN /\ Fail("range_and_since")
                    /\ UNCHANGED <<since, last_issue_nr, max_pr>>
               ELSE /\ since' = created_at'
                    /\ LoopBounds(pr_range[2] - pr_range[1] + 1)
                    /\ pc' = "while"
                    /\ UNCHANGED fail_reason
    /\ UNCHANGED <<inputs, earlier, check_vars>>
    /\ UNCHANGED <<prs_data, pr_nrs, issues_data, idx, sleep_secs, disk, requests,
                   visited, no_progress>>

\* lines 214-224: no range; preliminary listing of the open pull requests
ListBounds ==
    /\ pc = "bounds"
    /\ pr_range = None
    /\ calls' = [calls EXCEPT !.pulls = @ + 1]
    /\ IF ListPulls = {}
       THEN \* max([]) raises ValueError
            /\ Fail("no_pulls")
            /\ UNCHANGED <<since, last_issue_nr, max_pr>>
       ELSE /\ since' = IF since = NoSince THEN EPOCH_START ELSE since
            /\ LoopBounds(SetMax(ListPulls))
            /\ pc' = "while"
            /\ UNCHANGED fail_reason
    /\ UNCHANGED <<inputs, earlier, created_at, check_vars>>
    /\ UNCHANGED <<prs_data, pr_nrs, issues_data, idx, sleep_secs, disk, requests,
                   visited, no_progress>>

\* lines 155-156, 218-219, 241-242: socket.gaierror in a remote call
BoundsGaierror ==
    /\ pc = "bounds"
    /\ IF pr_range # None
       THEN \E failing \in IF PullPos(pr_range[1]) # {} THEN LookupCalls ELSE {"pull"} :
                calls' = FailedLookup(failing)
       ELSE calls' = [calls EXCEPT !.pulls = @ + 1]
    /\ Gaierror
    /\ UNCHANGED <<inputs, earlier, created_at, check_vars>>
    /\ UNCHANGED <<since, prs_data, pr_nrs, last_issue_nr, max_pr, issues_data,
                   idx, sleep_secs, disk, requests, visited, no_progress>>

\* mutant: the loop goes on while the last issue number has not passed max_pr
Continue_inclusive(last_nr, max_nr) == last_nr <= max_nr

\* line 229: the loop condition
Continue(last_nr, max_nr) == last_nr < max_nr

\* line 229: the loop condition is evaluated
LoopCheck ==
    /\ pc = "while"
    /\ IF Continue(last_issue_nr, max_pr)
       THEN pc' = "request" /\ sleep_secs' = 0
       ELSE pc' = "dump" /\ UNCHANGED sleep_secs
    /\ UNCHANGED <<inputs, earlier, created_at, check_vars>>
    /\ UNCHANGED <<since, prs_data, pr_nrs, last_issue_nr, max_pr, issues_data,
                   idx, disk, calls, requests, visited, no_progress, fail_reason>>

\* lines 236-240: the listing call answers
ListingOk ==
    /\ pc = "request"
    /\ issues_data' = ListIssues(since)
    /\ idx' = 1
    /\ sleep_secs' = 0
    /\ calls' = [calls EXCEPT !.listing = @ + 1]
    /\ requests' = Append(requests, since)
    /\ pc' = "for"
    /\ UNCHANGED <<inputs, earlier, created_at, check_vars>>
    /\ UNCHANGED <<since, prs_data, pr_nrs, last_issue_nr, max_pr, disk, visited,
                   no_progress, fail_reason>>

\* mutant: the sleep is twice as long after every failure
NextSleep_doubled(secs) == 2 * secs + 1

\* line 245: sleep_secs += 1; line 247 sleeps for the new value
NextSleep(secs) == secs + 1

\* lines 243-247: any other exception: sleep and try again
ListingRetry ==
    /\ pc = "request"
    /\ sleep_secs < MaxSleep
    /\ sleep_secs' = NextSleep(sleep_secs)
    /\ UNCHANGED <<inputs, earlier, created_at, check_vars>>
    /\ UNCHANGED <<pc, since, prs_data, pr_nrs, last_issue_nr, max_pr, issues_data,
                   idx, disk, calls, requests, visited, no_progress, fail_reason>>

\* lines 241-242
ListingGaierror ==
    /\ pc = "request"
    /\ calls' = [calls EXCEPT !.listing = @ + 1]
    /\ Gaierror
    /\ UNCHANGED <<inputs, earlier, created_at, check_vars>>
    /\ UNCHANGED <<since, prs_data, pr_nrs, last_issue_nr, max_pr, issues_data,
                   idx, sleep_secs, disk, requests, visited, no_progress>>

\* mutant: the pull_request field of the listing record is not looked at
Wanted_any_issue(issue) == update \/ issue.number \notin Range(pr_nrs)

\* line 252: the issue is a pull request to fetch
Wanted(issue) == issue.pull_request /\ (update \/ issue.number \notin Range(pr_nrs))

\* lines 251-292: one iteration of the per-issue loop
ProcessIssue ==
    /\ pc = "for"
    /\ idx <= Len(issues_data)
    /\ LET issue == issues_data[idx]
           fetch == Wanted(issue) /\ in_range(issue.number, pr_range)
       IN  /\ visited' = visited \cup {issue.number}
           /\ IF ~fetch
              THEN /\ idx' = idx + 1
                   /\ UNCHANGED <<prs_data, pr_nrs, calls, pc, fail_reason>>
              ELSE IF PullPos(issue.number) = {}
              THEN \* the point lookup answers 404 for a number that is no pull
                   \* request: more_pr_data['merged'] raises KeyError, the comments
                   \* loop of fetch_pr_data TypeError
                   /\ calls' = IF issue.state = "open"
                               THEN [calls EXCEPT !.pull = @ + 1, !.comments = @ + 1]
                               ELSE [calls EXCEPT !.pull = @ + 1]
                   /\ Fail("not_found")
                   /\ UNCHANGED <<prs_data, pr_nrs, idx>>
              ELSE /\ \E merged \in BOOLEAN :     \* more_pr_data['merged']
                        LET pr_data == IF issue.state = "open"
                                       THEN fetch_pr_data(issue.number)
                                       ELSE ClosedRecord(issue, merged)
                            after == Upsert(prs_data, pr_nrs, pr_data)
                        IN  /\ prs_data' = after[1] /\ pr_nrs' = after[2]
                            /\ IF UpsertAborts(prs_data, pr_nrs, pr_data)
                               THEN Fail("replace")
                               ELSE UNCHANGED <<pc, fail_reason>>
                   /\ calls' = IF issue.state = "open"
                               THEN [calls EXCEPT !.pull = @ + 1, !.status = @ + 1,
                                                  !.comments = @ + 1]
                               ELSE [calls EXCEPT !.pull = @ + 1]
                   /\ idx' = idx + 1
    /\ UNCHANGED <<inputs, earlier, created_at, check_vars>>
    /\ UNCHANGED <<since, last_issue_nr, max_pr, issues_data, sleep_secs, disk,
                   requests, no_progress>>

\* lines 155-156, 266: a request of the point lookup of the current pull request
\* fails: fetch_pr_data raises EasyBuildError on socket.gaierror and catches nothing
\* else, the merged lookup of a closed pull request is not guarded
LookupFails ==
    /\ pc = "for"
    /\ idx <= Len(issues_data)
    /\ Wanted(issues_data[idx]) /\ in_range(issues_data[idx].number, pr_range)
    /\ visited' = visited \cup {issues_data[idx].number}
    /\ \E failing \in IF issues_data[idx].state = "open" THEN LookupCalls ELSE {"pull"} :
          calls' = FailedLookup(failing)
    /\ Gaierror
    /\ UNCHANGED <<inputs, earlier, created_at, check_vars>>
    /\ UNCHANGED <<since, prs_data, pr_nrs, last_issue_nr, max_pr, issues_data,
                   idx, sleep_secs, disk, requests, no_progress>>

\* mutant: strptime is given the format, and the watermark moves on by one hour
NoProgress_parsed(s) == [ok |-> TRUE, since |-> s + ONE_HOUR]

\* line 311: datetime.datetime.strptime(since) is called without a format and raises
\* TypeError whenever `since` is a string, which every watermark is
NoProgress(s) == [ok |-> FALSE, since |-> s]

\* lines 294-313: after the per-issue loop
UpdateWatermark ==
    /\ pc = "for"
    /\ idx > Len(issues_data)
    /\ LET adv == Advance(issues_data, last_issue_nr, since)
       IN  /\ last_issue_nr' = adv[1]
           /\ IF adv[2] = since
              THEN /\ no_progress' = no_progress + 1
                   /\ IF NoProgress(adv[2]).ok
                      THEN /\ since' = NoProgress(adv[2]).since
                           /\ pc' = "while"
                           /\ UNCHANGED fail_reason
                      ELSE /\ since' = adv[2]
                           /\ Fail("strptime")
              ELSE /\ since' = adv[2]
                   /\ pc' = "while"
                   /\ UNCHANGED <<no_progress, fail_reason>>
    /\ UNCHANGED <<inputs, earlier, created_at, check_vars>>
    /\ UNCHANGED <<prs_data, pr_nrs, max_pr, issues_data, idx, sleep_secs, disk,
                   calls, requests, visited>>

\* mutant: only the records of open pull requests are pickled
Pickled_open(data) == SelectSeq(data, LAMBDA r : r.state = "open")

\* mutant: the watermark is pickled after the records
Pickled_with_since(data) == Append(data, [since |-> since])

\* line 317: pickle.dump(prs_data, ...): what the file holds afterwards
Pickled(data) == data

\* lines 315-320
Dump ==
    /\ pc = "dump"
    /\ disk' = Some(Pickled(prs_data))
    /\ pc' = "returned"
    /\ UNCHANGED <<inputs, earlier, created_at, check_vars>>
    /\ UNCHANGED <<since, prs_data, pr_nrs, last_issue_nr, max_pr, issues_data,
                   idx, sleep_secs, calls, requests, visited, no_progress, fail_reason>>

\* lines 773-777 (main), lines 190-192: the script is called again with the same
\* options and --pickle-file naming the file the run before has dumped, against the
\* same repository.  Modelled after the first runs that were called with update=False
\* and without a pickle file.
RunAgain ==
    /\ pc = "returned"
    /\ run = 1
    /\ disk # None
    /\ pickle_file = None
    /\ ~update
    /\ run' = 2
    /\ first_returned' = Some(prs_data)
    /\ pickle_file' = disk
    /\ pc' = "check_since"
    /\ since' = NoSince
    /\ prs_data' = <<>>
    /\ pr_nrs' = <<>>
    /\ last_issue_nr' = 0
    /\ max_pr' = 0
    /\ issues_data' = <<>>
    /\ idx' = 0
    /\ sleep_secs' = 0
    /\ disk' = None
    /\ calls' = NoCalls
    /\ requests' = <<>>
    /\ visited' = {}
    /\ no_progress' = 0
    /\ fail_reason' = ""
    /\ UNCHANGED <<remote, pr_range, update, since_arg, created_at, check_vars>>

Next ==
    \/ CheckSince
    \/ LoadPickle
    \/ EarlyReturn
    \/ RangeBounds
    \/ ListBounds
    \/ BoundsGaierror
    \/ LoopCheck
    \/ ListingOk
    \/ ListingRetry
    \/ ListingGaierror
    \/ ProcessIssue
    \/ LookupFails
    \/ UpdateWatermark
    \/ Dump
    \/ RunAgain

Spec == Init /\ [][Next]_vars

\* ------------------------------------------- the upsert of lines 276-287 on its own
\* a record as fetch_pr_data returns it for pull request n
FreshRecord(n) == [FileRecord(n) EXCEPT !.origin = "pull"]

\* the upsert is given any list of records without a number twice and any index of
\* numbers, whether or not the index has the numbers of the list
InitUpsert ==
    /\ prs_data \in {[i \in 1..Len(ns) |-> FileRecord(ns[i])] :
                        ns \in InjSeqs(Numbers, MaxLoaded)}
    /\ pr_nrs \in InjSeqs(Numbers, MaxLoaded + 1)
    /\ pc = "upsert"
    /\ remote = <<>>
    /\ pickle_file = None
    /\ pr_range = None
    /\ update = TRUE
    /\ since_arg = None
    /\ since = EPOCH_START
    /\ last_issue_nr = 1
    /\ max_pr = MaxNr
    /\ issues_data = <<>>
    /\ idx = 0
    /\ sleep_secs = 0
    /\ disk = None
    /\ calls = NoCalls
    /\ requests = <<>>
    /\ visited = {}
    /\ no_progress = 0
    /\ fail_reason = ""
    /\ created_at = NoSince
    /\ run = 1
    /\ first_returned = None
    /\ CheckIdle

\* lines 276-287 for the fetched record of some pull request
UpsertStep ==
    /\ pc = "upsert"
    /\ \E n \in Numbers :
          LET after == Upsert(prs_data, pr_nrs, FreshRecord(n))
          IN  /\ prs_data' = after[1] /\ pr_nrs' = after[2]
              /\ visited' = {n}
              /\ IF UpsertAborts(prs_data, pr_nrs, FreshRecord(n))
                 THEN Fail("replace")
                 ELSE pc' = "upserted" /\ UNCHANGED fail_reason
    /\ UNCHANGED <<inputs, earlier, created_at, check_vars>>
    /\ UNCHANGED <<since, last_issue_nr, max_pr, issues_data, idx, sleep_secs, disk,
                   calls, requests, no_progress>>

SpecUpsert == InitUpsert /\ [][UpsertStep]_vars

\* ------------------------------- the update of lines 294-307 over any pages
\* a page that lists the issues numbered ns, least recently updated first
PageListing(ns) ==
    [i \in 1..Len(ns) |-> [number |-> ns[i], pull_request |-> TRUE, state |-> "open",
                           updated_at |-> Stamp(i)]]

Pages == {PageListing(ns) : ns \in InjSeqs(Numbers, GITHUB_MAX_PER_PAGE)}

\* the loop has listed some page while the counter has some value
InitAdvance ==
    /\ issues_data \in Pages
    /\ last_issue_nr \in Numbers
    /\ since \in {EPOCH_START} \cup {Stamp(p) : p \in 1..GITHUB_MAX_PER_PAGE}
    /\ pc = "advance"
    /\ max_pr = MaxNr + 1
    /\ remote = <<>>
    /\ pickle_file = None
    /\ pr_range = None
    /\ update = FALSE
    /\ since_arg = None
    /\ prs_data = <<>>
    /\ pr_nrs = <<>>
    /\ idx = 0
    /\ sleep_secs = 0
    /\ disk = None
    /\ calls = NoCalls
    /\ requests = <<>>
    /\ visited = {}
    /\ no_progress = 0
    /\ fail_reason = ""
    /\ created_at = NoSince
    /\ run = 1
    /\ first_returned = None
    /\ CheckIdle

\* lines 294-307 for the page listed
AdvanceStep ==
    /\ pc = "advance"
    /\ LET adv == Advance(issues_data, last_issue_nr, since)
       IN  last_issue_nr' = adv[1] /\ since' = adv[2]
    /\ pc' = "advanced"
    /\ UNCHANGED <<inputs, earlier, created_at, check_vars>>
    /\ UNCHANGED <<prs_data, pr_nrs, max_pr, issues_data, idx, sleep_secs, disk, calls,
                   requests, visited, no_progress, fail_reason>>

\* line 229 and lines 236-240: the loop goes on and lists another page
NextPage ==
    /\ pc = "advanced"
    /\ Continue(last_issue_nr, max_pr)
    /\ issues_data' \in Pages
    /\ pc' = "advance"
    /\ UNCHANGED <<inputs, earlier, created_at, check_vars>>
    /\ UNCHANGED <<since, prs_data, pr_nrs, last_issue_nr, max_pr, idx, sleep_secs, disk,
                   calls, requests, visited, no_progress, fail_reason>>

SpecAdvance == InitAdvance /\ [][AdvanceStep \/ NextPage]_vars

\* ------------- lines 251-287 while pull requests are closed and reopened remotely
\* the loop is about to walk the first page listed from an empty snapshot
InitRace ==
    /\ remote \in Remotes
    /\ since = EPOCH_START
    /\ issues_data = ListIssues(EPOCH_START)
    /\ idx = 1
    /\ pc = "for"
    /\ prs_data = <<>>
    /\ pr_nrs = <<>>
    /\ pickle_file = None
    /\ pr_range = None
    /\ update = FALSE
    /\ since_arg = None
    /\ last_issue_nr = 1
    /\ max_pr = MaxNr
    /\ sleep_secs = 0
    /\ disk = None
    /\ calls = [NoCalls EXCEPT !.listing = 1]
    /\ requests = <<EPOCH_START>>
    /\ visited = {}
    /\ no_progress = 0
    /\ fail_reason = ""
    /\ created_at = NoSince
    /\ run = 1
    /\ first_returned = None
    /\ CheckIdle

\* somebody closes an open pull request of the repository, or reopens a closed one,
\* after the page was listed: issues_data keeps the state the listing reported, the
\* point lookups of lines 130 and 266 answer with the state of the moment
RemoteChanges ==
    /\ pc = "for"
    /\ \E p \in 1..Len(remote) :
          /\ remote[p].kind # "issue"
          /\ remote' = [remote EXCEPT ![p].kind = IF @ = "open" THEN "closed"
                                                                ELSE "open"]
    /\ UNCHANGED <<pickle_file, pr_range, update, since_arg, earlier, created_at,
                   check_vars>>
    /\ UNCHANGED <<since, prs_data, pr_nrs, last_issue_nr, max_pr, issues_data, idx,
                   sleep_secs, disk, calls, requests, visited, no_progress, pc,
                   fail_reason>>

SpecRace == InitRace /\ [][RemoteChanges \/ ProcessIssue]_vars

\* ------------------------------------------------------ pr_check.py: one run of main
\* travis() reports at most MaxBuilds pull requests with a failed build
MaxBuilds == 2

\* answers of the merge PUT (lines 173-178) and of the branch DELETE (lines 185-188)
PutStatuses == {200, 405, 409, 500}
DeleteStatuses == {204, 422}

\* fetch_prs_data is not run
FetchIdle ==
    /\ remote = <<>>
    /\ pickle_file = None
    /\ pr_range = None
    /\ update = FALSE
    /\ since_arg = None
    /\ pc = "off"
    /\ since = NoSince
    /\ prs_data = <<>>
    /\ pr_nrs = <<>>
    /\ last_issue_nr = 0
    /\ max_pr = 0
    /\ issues_data = <<>>
    /\ idx = 0
    /\ sleep_secs = 0
    /\ disk = None
    /\ calls = NoCalls
    /\ requests = <<>>
    /\ visited = {}
    /\ no_progress = 0
    /\ fail_reason = ""
    /\ created_at = NoSince
    /\ run = 1
    /\ first_returned = None

fetch_vars == <<inputs, earlier, pc, since, prs_data, pr_nrs, last_issue_nr, max_pr,
                issues_data, idx, sleep_secs, disk, calls, requests, visited,
                no_progress, fail_reason, created_at>>

InitCheck ==
    /\ FetchIdle
    /\ pr_check \in [cpc        : {"main"},
                      DRY_RUN    : {FALSE},          \* line 44
                      options    : [dry_run : BOOLEAN, force : BOOLEAN,
                                    github_user : Users, action : Actions],
                      pr_info    : [author : Users, head_owner : Users],
                      review_res : {"none"},
                      put_status : {0},
                      pending    : {0},
                      mutations  : {<<>>}]

\* mutant: the global keeps the value of line 44
DryRunValue_default(opts) == FALSE

\* line 424: DRY_RUN = go.options.dry_run
DryRunValue(opts) == opts.dry_run

\* lines 423-424
SetOptions ==
    /\ cpc = "main"
    /\ pr_check' = [pr_check EXCEPT !.DRY_RUN = DryRunValue(options),
                                     !.cpc = "dispatch"]
    /\ UNCHANGED fetch_vars

\* lines 438-472: travis() is asked for the failed builds, or the pull request is
\* fetched and the selected action called; these requests only read
Dispatch ==
    /\ cpc = "dispatch"
    /\ IF options.action = "travis"
       THEN \E failed \in 0..MaxBuilds :
               pr_check' = [pr_check EXCEPT
                               !.pending = failed,
                               !.cpc = IF failed = 0 THEN "done" ELSE "notify"]
       ELSE pr_check' = [pr_check EXCEPT !.cpc = options.action]
    /\ UNCHANGED fetch_vars

\* lines 148-149: post_comment_in_issue unless DRY_RUN
Posted(log) == IF DRY_RUN THEN log ELSE Append(log, "comment")

\* lines 440-443: the pull request of a failed build is fetched and comment() called
\* with check_msg; lines 135-140: nothing is posted when the message is found
Notify ==
    /\ cpc = "notify"
    /\ \E found \in BOOLEAN :
          pr_check' = [pr_check EXCEPT
                          !.mutations = IF found THEN @ ELSE Posted(@),
                          !.pending = @ - 1,
                          !.cpc = IF pending - 1 = 0 THEN "done" ELSE "notify"]
    /\ UNCHANGED fetch_vars

\* lines 114-150 called from line 464: a coded message that cannot be decoded is an
\* error (lines 130, 132); check_msg is None
CommentAction ==
    /\ cpc = "comment"
    /\ \E decoded \in BOOLEAN :
          IF decoded
          THEN pr_check' = [pr_check EXCEPT !.mutations = Posted(@), !.cpc = "done"]
          ELSE pr_check' = [pr_check EXCEPT !.cpc = "exit"]
    /\ UNCHANGED fetch_vars

\* lines 156-157
MergeUser ==
    /\ cpc = "merge"
    /\ pr_check' = [pr_check EXCEPT !.cpc = IF options.github_user # MERGE_USER
                                             THEN "exit" ELSE "merge_review"]
    /\ UNCHANGED fetch_vars

\* mutant: the merge goes on whatever the review says
MayMerge_unreviewed(passed, force) == TRUE

\* line 161: if review(pr_data) or force
MayMerge(passed, force) == passed \/ force

\* what review(pr_data) does: it returns whether all checks passed (lines 271-286),
\* or check_test_reports ends the run (line 243)
ReviewOutcomes == {"passed", "failed", "error"}

\* lines 161, 190
MergeReview ==
    /\ cpc = "merge_review"
    /\ \E outcome \in ReviewOutcomes :
          IF outcome = "error"
          THEN pr_check' = [pr_check EXCEPT !.cpc = "exit"]
          ELSE pr_check' = [pr_check EXCEPT
                               !.review_res = outcome,
                               !.cpc = IF MayMerge(outcome = "passed", options.force)
                                       THEN "merge_comment" ELSE "exit"]
    /\ UNCHANGED fetch_vars

\* lines 164-165: thank the author, unless the pull request is the user's own
MergeComment ==
    /\ cpc = "merge_comment"
    /\ pr_check' = [pr_check EXCEPT
                       !.mutations = IF pr_info.author # options.github_user
                                     THEN Posted(@) ELSE @,
                       !.cpc = "merge_put"]
    /\ UNCHANGED fetch_vars

\* lines 167-178
MergePut ==
    /\ cpc = "merge_put"
    /\ IF DRY_RUN
       THEN pr_check' = [pr_check EXCEPT !.cpc = "merge_delete"]
       ELSE \E status \in PutStatuses :
               pr_check' = [pr_check EXCEPT
                               !.mutations = Append(@, "put"),
                               !.put_status = status,
                               !.cpc = IF status = 200 THEN "merge_delete" ELSE "exit"]
    /\ UNCHANGED fetch_vars

\* lines 181-188: delete the branch if the pull request came from the user's own fork
MergeDelete ==
    /\ cpc = "merge_delete"
    /\ IF options.github_user = pr_info.head_owner /\ ~DRY_RUN
       THEN \E status \in DeleteStatuses :
               pr_check' = [pr_check EXCEPT
                               !.mutations = Append(@, "delete"),
                               !.cpc = IF status = 204 THEN "done" ELSE "exit"]
       ELSE pr_check' = [pr_check EXCEPT !.cpc = "done"]
    /\ UNCHANGED fetch_vars

\* line 468
ReviewAction ==
    /\ cpc = "review"
    /\ \E outcome \in ReviewOutcomes :
          IF outcome = "error"
          THEN pr_check' = [pr_check EXCEPT !.cpc = "exit"]
          ELSE pr_check' = [pr_check EXCEPT !.cpc = "done", !.review_res = outcome]
    /\ UNCHANGED fetch_vars

\* lines 290-308: the job is submitted whatever DRY_RUN is (force_in_dry_run=True)
TestAction ==
    /\ cpc = "test"
    /\ \E submitted \in BOOLEAN :
          pr_check' = [pr_check EXCEPT
                          !.mutations = Append(@, "qsub"),
                          !.cpc = IF submitted THEN "done" ELSE "exit"]
    /\ UNCHANGED fetch_vars

NextCheck ==
    \/ SetOptions
    \/ Dispatch
    \/ Notify
    \/ CommentAction
    \/ MergeUser
    \/ MergeReview
    \/ MergeComment
    \/ MergePut
    \/ MergeDelete
    \/ ReviewAction
    \/ TestAction

SpecCheck == InitCheck /\ [][NextCheck]_vars

\* ------------------------------------------------------------ properties
\* the run went through the paging loop and pickled the snapshot
CompletedSync == pc = "returned" /\ disk # None

PriorRecords == IF pickle_file # None THEN pickle_file[1] ELSE <<>>

WellFormedSince == since_arg = None \/ SinceRegexMatches(since_arg[1])

\* the page answered to the i-th page request
PageOf(i) == ListIssues(requests[i])

PullNumbers(page) == {page[i].number : i \in {j \in 1..Len(page) : page[j].pull_request}}

MaxPullNumber(page) == IF PullNumbers(page) = {} THEN 0 ELSE SetMax(PullNumbers(page))

\* the number is one the caller asked for
Requested(n) == pr_range = None \/ (pr_range[1] <= n /\ n <= pr_range[2])

MaxUpdatedAt(page) == SetMax({page[i].updated_at : i \in 1..Len(page)})

\* C1 (cache short-circuit): called with a prior snapshot file that holds at least one
\* record, update=false, no range (and a --since that is absent or a date), the run
\* goes straight to its return: it makes no remote call, writes no snapshot file, and
\* returns the loaded records in their order.
C1_CacheShortCircuit ==
    (PriorRecords # <<>> /\ ~update /\ pr_range = None /\ WellFormedSince)
        => /\ calls = NoCalls
           /\ disk = None
           /\ pc \in {"check_since", "load", "early_return", "returned"}
           /\ pc = "returned" => prs_data = PriorRecords

C1_Witness ==
    /\ pc = "returned"
    /\ Len(PriorRecords) = 2
    /\ ~update /\ pr_range = None
    /\ prs_data = PriorRecords
    /\ calls = NoCalls
    /\ Len(remote) > 0

\* C2 (no duplication): in every state of every run, whatever the snapshot loaded,
\* the pages listed and the value of update, no two records of the snapshot list have
\* the same number.
C2_NoDuplication ==
    \A i, j \in 1..Len(prs_data) : i # j => prs_data[i].number # prs_data[j].number

\* a pull request of the prior snapshot was listed by two pages and fetched again
C2_Witness ==
    /\ update
    /\ Len(requests) >= 2
    /\ \E i \in 1..Len(prs_data) :
          /\ prs_data[i].origin # "file"
          /\ prs_data[i].number \in Range(NumbersOf(PriorRecords))
          /\ prs_data[i].number \in IssueNumbers(PageOf(1)) \cap IssueNumbers(PageOf(2))
    /\ pc = "returned"

\* C3 (watermark monotonicity): the watermark of a page request is never earlier than
\* the watermark of the page request before it, nor the current watermark earlier
\* than that of the last request.
C3_WatermarkMonotone ==
    [](/\ \A i \in 1..(Len(requests) - 1) : requests[i] <= requests[i + 1]
       /\ requests # <<>> => requests[Len(requests)] <= since)

\* two page requests and the page of the second moved the watermark again
C3_Witness ==
    /\ Len(requests) = 2
    /\ requests[1] < requests[2]
    /\ requests[2] < since

\* C4 (coverage), the claim as stated, for the runs that request a page: when the run
\* has completed normally, every pull request of the dataset that was updated after
\* the starting watermark and whose number is in the requested range has been seen
\* by the per-issue loop.
C4_Coverage ==
    (CompletedSync /\ requests # <<>>)
        => \A p \in 1..Len(remote) :
              (/\ remote[p].kind # "issue"
               /\ Stamp(p) > requests[1]
               /\ Requested(remote[p].number))
                  => remote[p].number \in visited

\* C5 (convergence), the claim as stated: with well-formed arguments, against a
\* dataset that does not change and a remote that answers every call, the run never
\* aborts: an aborted run was given bad arguments, or a lookup found no pull request,
\* or a call failed.
C5_Convergence ==
    pc = "failed"
        => fail_reason \in {"since_format", "range_and_since", "not_found", "no_pulls",
                            "gaierror"}

\* C6 (progress guard), the claim as stated: the step that ends a page which leaves
\* the watermark where it was does not abort the run, and sets the watermark one hour
\* later.
C6_ProgressGuard ==
    [][(/\ pc = "for"
        /\ idx > Len(issues_data)
        /\ Advance(issues_data, last_issue_nr, since)[2] = since)
          => (pc' = "while" /\ since' = since + ONE_HOUR)]_vars

\* C7 (bounded no-progress): a run survives no page that makes no progress: the
\* no-progress branch is entered at most once, the run is then aborted and has
\* written nothing; an empty page is the last page of its run, and once it has been
\* processed the run is aborted by the no-progress branch.
C7_BoundedNoProgress ==
    [](/\ no_progress <= 1
       /\ no_progress = 1 => (pc = "failed" /\ fail_reason = "strptime" /\ disk = None)
       /\ \A i \in 1..Len(requests) :
             PageOf(i) = <<>>
                 => /\ i = Len(requests)
                    /\ pc \in {"for", "failed"}
                    /\ pc = "failed" => (no_progress = 1 /\ fail_reason = "strptime"))

C7_Witness ==
    /\ pc = "failed"
    /\ no_progress = 1
    /\ Len(requests) = 1
    /\ PageOf(1) = <<>>
    /\ last_issue_nr < max_pr

C9_WatermarkIsMaxUpdated ==
    (pc = "while" /\ requests # <<>> /\ issues_data # <<>>)
        => since = MaxUpdatedAt(issues_data)

\* C10 (range filtering), the claim as stated, for the runs that page through the
\* range: a run given a range returns, and pickles, no record whose number is outside
\* the range.
C10_RangeFiltering ==
    (pr_range # None /\ CompletedSync)
        => /\ \A i \in 1..Len(prs_data) : Requested(prs_data[i].number)
           /\ \A i \in 1..Len(disk[1]) : Requested(disk[1][i].number)

OutOfRangeIsLoaded(data) ==
    \A i \in 1..Len(data) :
        Requested(data[i].number) \/ data[i] \in Range(PriorRecords)

\* C10 as amended: in a run given a range, every record of the snapshot list, and of
\* the pickled snapshot, whose number is outside the range is a record that was loaded
\* from the prior snapshot file; without a prior snapshot there is none.
C10_RangeFilteringFetched ==
    pr_range # None
        => /\ OutOfRangeIsLoaded(prs_data)
           /\ disk # None => OutOfRangeIsLoaded(disk[1])

\* a pull request outside the range was listed and the run stored only pull requests
\* of the range
C10_Witness ==
    /\ CompletedSync
    /\ pr_range # None
    /\ \E n \in visited \cap PullNumbers(AllIssues) : ~Requested(n)
    /\ disk[1] # <<>>
    /\ \A i \in 1..Len(disk[1]) : Requested(disk[1][i].number)

\* the per-issue loop is at a listing record without the pull_request field
AtPlainIssue == pc = "for" /\ idx <= Len(issues_data) /\ ~issues_data[idx].pull_request

\* numbers of the plain issues of the repository
PlainNumbers == {remote[p].number : p \in {q \in 1..Len(remote) : remote[q].kind = "issue"}}

\* C11 (plain issues are discarded): the step of the per-issue loop on a listing
\* record without the pull_request field makes no remote call, leaves the snapshot
\* list and the index of known numbers as they are and goes on to the next record;
\* and no record of the snapshot list has the number of a plain issue.
C11_PlainIssuesDiscarded ==
    /\ [](\A i \in 1..Len(prs_data) : prs_data[i].number \notin PlainNumbers)
    /\ [][AtPlainIssue => /\ calls' = calls
                          /\ prs_data' = prs_data
                          /\ pr_nrs' = pr_nrs
                          /\ pc' = "for" /\ idx' = idx + 1]_vars

\* a run that met a plain issue stored the pull requests and pickled them
C11_Witness ==
    /\ CompletedSync
    /\ visited \cap PlainNumbers # {}
    /\ disk[1] # <<>>
    /\ Len(disk[1]) = Cardinality(visited \ PlainNumbers)

\* the run has got past the load of the prior snapshot file (lines 190-195)
Loaded == pc \notin {"check_since", "load"} /\ fail_reason # "since_format"

\* position of the record numbered n in the prior snapshot file, 0 if it has none
PriorPos(n) ==
    IF \E i \in 1..Len(PriorRecords) : PriorRecords[i].number = n
    THEN CHOOSE i \in 1..Len(PriorRecords) : PriorRecords[i].number = n
    ELSE 0

\* the per-issue loop is at a closed pull request that the prior snapshot file holds
AtKnownClosed ==
    /\ pc = "for" /\ idx <= Len(issues_data)
    /\ issues_data[idx].pull_request
    /\ issues_data[idx].state = "closed"
    /\ PriorPos(issues_data[idx].number) > 0

\* C12 (merge correctness): the records loaded from the prior snapshot file keep
\* their positions for the whole run; the step that looks up a closed pull request n
\* which the prior file holds puts, at the position of the record of n and nowhere
\* else, a record with number n, state closed and is_merged as the lookup answered
\* (merged_by is there exactly when it answered true), adds no record and leaves the
\* index as it is; with update set and n in the range that lookup is made; and the
\* list pickled at the end is the list so built.
C12_MergeCorrectness ==
    /\ [](Loaded
            => /\ Len(prs_data) >= Len(PriorRecords)
               /\ \A i \in 1..Len(PriorRecords) :
                      prs_data[i].number = PriorRecords[i].number)
    /\ [](CompletedSync => disk[1] = prs_data)
    /\ [][AtKnownClosed
            => LET n == issues_data[idx].number
                   i == PriorPos(n)
               IN  /\ (update /\ Requested(n)) => calls'.pull = calls.pull + 1
                   /\ (calls'.pull = calls.pull + 1 /\ pc' = "for")
                         => /\ prs_data' = [prs_data EXCEPT ![i] = prs_data'[i]]
                            /\ prs_data'[i].number = n
                            /\ prs_data'[i].state = "closed"
                            /\ prs_data'[i].is_merged \in {"yes", "no"}
                            /\ prs_data'[i].is_merged = "yes" <=> prs_data'[i].merged_by
                            /\ pr_nrs' = pr_nrs]_vars

\* the first of two loaded records, open in the file, was listed as closed and looked
\* up as merged; the run pickled it in its place, next to the untouched second record
C12_Witness ==
    /\ CompletedSync
    /\ Len(PriorRecords) = 2
    /\ Len(disk[1]) = 2
    /\ disk[1][1].number = PriorRecords[1].number
    /\ disk[1][1].state = "closed"
    /\ disk[1][1].is_merged = "yes"
    /\ disk[1][2] = PriorRecords[2]

\* C13 (idempotence): a run with update=false and no prior snapshot file that
\* completes, followed by a run with the same arguments on the file the first has
\* pickled, against the same repository: the second run, when it returns, returns
\* the list the first returned, record for record.
C13_Idempotence ==
    (run = 2 /\ pc = "returned") => prs_data = first_returned[1]

\* the second run has returned the two records of the first
C13_Witness ==
    /\ run = 2
    /\ pc = "returned"
    /\ Len(first_returned[1]) = 2
    /\ prs_data = first_returned[1]
    /\ calls = NoCalls

\* the first run pickled an empty list, and the second went through the loop again
C13_WitnessEmpty ==
    /\ run = 2
    /\ pc = "returned"
    /\ first_returned[1] = <<>>
    /\ requests # <<>>

C15_ConflictingInputs ==
    (pr_range # None /\ since_arg # None /\ since_arg # Some(NotADate))
        => /\ calls = NoCalls
           /\ pc = "failed" => fail_reason = "range_and_since"

\* C16 (no partial persistence): the snapshot file is written by one step only, the
\* dump after the paging loop has run out (the loop condition is false), and that step
\* ends the run, so a run writes it at most once; a run that has aborted, for whatever
\* reason, has written nothing.
C16_NoPartialPersistence ==
    /\ [](disk # None => (pc = "returned" /\ fail_reason = ""))
    /\ [](fail_reason # "" => disk = None)
    /\ [][(disk' # disk /\ run' = run)
            => /\ disk = None
               /\ pc = "dump" /\ pc' = "returned"
               /\ last_issue_nr >= max_pr]_vars

\* the run had fetched a record into the list when a call failed for good
C16_Witness ==
    /\ pc = "failed"
    /\ fail_reason = "gaierror"
    /\ Len(prs_data) > Len(PriorRecords)
    /\ PriorRecords # <<>>
    /\ disk = None

GenericFailure == pc = "request" /\ sleep_secs' # sleep_secs /\ pc' # "for"

\* C18 (page retry policy): every page request is entered with the failure count at
\* zero; after a failure of the listing call that is no socket.gaierror, the N-th in a
\* row for this page, the run sleeps N seconds (sleep_secs counts the failures and is
\* the time slept) and is back at the same request with the same watermark, nothing
\* else changed and the run not aborted.
C18_PageRetryPolicy ==
    /\ [][(pc # "request" /\ pc' = "request") => sleep_secs' = 0]_vars
    /\ [][GenericFailure
            => /\ sleep_secs' = sleep_secs + 1
               /\ pc' = "request"
               /\ since' = since
               /\ UNCHANGED <<prs_data, pr_nrs, last_issue_nr, max_pr, disk, calls,
                              requests, fail_reason>>]_vars
    /\ [](pc = "request" => (sleep_secs \in 0..MaxSleep /\ fail_reason = ""))

\* the request of the second page has failed twice in a row
C18_Witness ==
    /\ pc = "request"
    /\ Len(requests) = 1
    /\ sleep_secs = 2
    /\ since = MaxUpdatedAt(PageOf(1))

\* C19 (fatal lookup failures), the claim as stated, for the page requests: a step at
\* a page request that does not get the page (the call has failed) ends the run.
C19_PageFailureFatal ==
    [][(pc = "request" /\ requests' = requests) => pc' = "failed"]_vars

\* a step made a remote call that failed for good (a page request that is tried again
\* is not counted in calls): a page request that added no page, a point lookup of the
\* per-issue loop after which the loop is at the same record, a call for the loop
\* bounds after which the loop is not entered
CallFailed ==
    /\ calls' # calls
    /\ \/ pc = "request" /\ requests' = requests
       \/ pc = "for" /\ idx' = idx
       \/ pc = "bounds" /\ pc' # "while"

\* C19 as amended: a remote call that fails with a name lookup error
\* (socket.gaierror), be it a page request, the listing of the open pull requests, or
\* a request of a point lookup (pull request, commit status, comments; the merged
\* lookup of a closed pull request), ends the run in that very step: no endpoint is
\* called twice in the step, the list and the file are left as they are; an aborted
\* run makes no remote call and writes nothing.  Any other failure of a page request
\* does not end the run: the request is made again.
C19_FatalLookupFailures ==
    /\ [][GenericFailure => pc' = "request"]_vars
    /\ [][CallFailed
            => /\ pc' = "failed"
               /\ \A c \in DOMAIN calls : calls'[c] \in {calls[c], calls[c] + 1}
               /\ UNCHANGED <<prs_data, pr_nrs, disk>>]_vars
    /\ [][pc = "failed" => UNCHANGED <<pc, calls, disk>>]_vars
    /\ [](pc = "failed" => disk = None)

\* the point lookup of a pull request of the second page failed at its status request
C19_Witness ==
    /\ pc = "failed"
    /\ fail_reason = "gaierror"
    /\ Len(requests) = 2
    /\ idx <= Len(issues_data)
    /\ calls.pull = calls.status
    /\ calls.status = calls.comments + 1
    /\ prs_data # <<>>
    /\ disk = None

\* the per-issue loop is at a listed pull request whose number is in the index of
\* known numbers and in the range asked for
AtKnownPull ==
    /\ pc = "for" /\ idx <= Len(issues_data)
    /\ issues_data[idx].pull_request
    /\ issues_data[idx].number \in Range(pr_nrs)
    /\ Requested(issues_data[idx].number)

\* C20 (skip of known pull requests), the claim as stated: the step on a listed pull
\* request that is already known skips it (no remote call, list unchanged) exactly
\* when update is false and no range is given; with a range the known pull request of
\* the range is looked up again even if update is false.
C20_SkipKnown ==
    [][AtKnownPull
         => ((calls' = calls /\ prs_data' = prs_data) <=> (~update /\ pr_range = None))]_vars

\* the record of the list that has the number n
RecordOf(data, n) == data[CHOOSE i \in 1..Len(data) : data[i].number = n]

\* the step of the per-issue loop has looked up the current record and stored it
Fetched == pc = "for" /\ idx <= Len(issues_data) /\ idx' = idx + 1 /\ calls' # calls

C22_InitialWatermark ==
    requests # <<>>
        => requests[1] =
              IF since_arg # None THEN since_arg[1] * SecondsPerDay + END_OF_DAY
              ELSE IF pr_range # None THEN created_at
              ELSE EPOCH_START

\* a run given --since has listed a page that is not empty
C22_Witness ==
    /\ since_arg # None
    /\ pr_range = None
    /\ Len(requests) = 1
    /\ requests[1] = since_arg[1] * SecondsPerDay + END_OF_DAY
    /\ PageOf(1) # <<>>

\* a run given a range has started at the created_at the lookup answered, a time
\* before the last update of the pull request numbered range_low
C22_WitnessRange ==
    /\ since_arg = None
    /\ pr_range # None
    /\ requests # <<>>
    /\ requests[1] = created_at
    /\ created_at < fetch_pr_data(pr_range[1]).updated_at
    /\ calls.pull >= 1

\* C23 (range coverage of the result), the claim as stated: a first run that was given
\* a range and no snapshot file and has completed returns a record for every pull
\* request of the repository whose number is in the range.
C23_RangeCoverage ==
    (CompletedSync /\ pr_range # None /\ pickle_file = None)
        => \A n \in PullNumbers(AllIssues) :
              Requested(n) => n \in Range(NumbersOf(prs_data))

Mutating == {"comment", "put", "delete"}

Sent(kind) == \E i \in 1..Len(mutations) : mutations[i] = kind

\* C25 (dry run performs no mutation): in a run of pr_check.py with --dry-run, whatever
\* the action (comment, merge, travis notification, review, test), no issue comment
\* is posted, no merge PUT and no branch DELETE is sent.
C25_DryRunNoMutation ==
    options.dry_run => \A kind \in Mutating : ~Sent(kind)

\* a dry run of a merge that got past the review, for a pull request of another
\* author from the user's own fork: the three requests were all skipped
C25_Witness ==
    /\ options.dry_run
    /\ options.action = "merge"
    /\ cpc = "done"
    /\ pr_info.author # options.github_user
    /\ pr_info.head_owner = options.github_user
    /\ mutations = <<>>

\* C26 (merge gating): in a run of the merge action, a request that changes something
\* has been sent only if the user is MERGE_USER and the review has passed or force is
\* set; the requests are sent in the order comment, PUT, DELETE, each at most once;
\* and the DELETE has been sent only after the PUT of this run answered 200.
C26_MergeGating ==
    options.action = "merge"
        => /\ mutations # <<>>
                 => /\ options.github_user = MERGE_USER
                    /\ review_res = "passed" \/ options.force
           /\ \E c, p, d \in 0..1 :
                 mutations = [i \in 1..c |-> "comment"] \o [i \in 1..p |-> "put"]
                                 \o [i \in 1..d |-> "delete"]
           /\ Sent("delete") => (Sent("put") /\ put_status = 200)
           /\ Sent("put") => put_status \in PutStatuses

\* a forced merge after a failed review: comment, PUT answered 200, DELETE
C26_Witness ==
    /\ options.action = "merge"
    /\ options.force
    /\ review_res = "failed"
    /\ mutations = <<"comment", "put", "delete">>
    /\ put_status = 200
    /\ cpc = "done"

\* C27 (index consistency): in every state of a run the index of known numbers is the
\* sequence of the numbers of the records of the list, in the order of the list, so
\* every number of the index has its record; within a run no step makes the list
\* shorter or changes the number at a position, and once the prior file is loaded
\* its records' numbers are the first numbers of the list.
C27_IndexConsistency ==
    /\ [](/\ Len(pr_nrs) = Len(prs_data)
          /\ \A i \in 1..Len(prs_data) : pr_nrs[i] = prs_data[i].number)
    /\ [](Loaded => /\ Len(prs_data) >= Len(PriorRecords)
                    /\ \A i \in 1..Len(PriorRecords) :
                           prs_data[i].number = PriorRecords[i].number)
    /\ [][run' = run
            => /\ Len(prs_data') >= Len(prs_data)
               /\ \A i \in 1..Len(prs_data) : prs_data'[i].number = prs_data[i].number]_vars

\* a completed run with update set has replaced a loaded record and appended one
C27_Witness ==
    /\ CompletedSync
    /\ PriorRecords # <<>>
    /\ prs_data[1].origin # "file"
    /\ Len(prs_data) > Len(PriorRecords)
    /\ pr_nrs = NumbersOf(prs_data)

\* C28 (progress counter monotonicity), the claim as stated, over any sequence of
\* pages: no page makes last_issue_nr smaller.
C28_CounterMonotone ==
    [][last_issue_nr' >= last_issue_nr]_vars

\* C29 (short-circuit limited to the no-range case), the claim as stated: a run given
\* a range, a snapshot file that holds a record and update=false does not return
\* before it has made the point lookup of the pull request numbered range_low.
C29_NoShortCircuitWithRange ==
    (pr_range # None /\ PriorRecords # <<>> /\ ~update /\ pc = "returned")
        => calls.pull >= 1

\* C30 (record shape under interleaving with remote changes), the claim as stated:
\* whatever happens to the pull requests between the listing and the point lookups,
\* every stored record with state closed carries is_merged and every stored record
\* with state open carries issue_comments.
C30_RecordShape ==
    \A i \in 1..Len(prs_data) :
        /\ prs_data[i].state = "closed" => prs_data[i].is_merged # "absent"
        /\ prs_data[i].state = "open" => prs_data[i].issue_comments

====
